---- MODULE Spec2Model ----
(***************************************************************************)
(* A model of bin/migrate-docs.py: the filename normalizer, the path       *)
(* mapper with its collision rule, the reference rewriter, and the         *)
(* dry-run / execute pipeline of main().                                   *)
(*                                                                         *)
(* Strings are sequences of one-character strings, so that prefixes,       *)
(* suffixes, substring replacement and the regular expressions of the      *)
(* script are computed character by character as Python computes them.     *)
(***************************************************************************)
EXTENDS Integers, Sequences, FiniteSets, TLC

(***************************************************************************)
(* Bounds of the model.                                                    *)
(***************************************************************************)
\* at most this many source files are discovered in one run
MaxFiles == 3

\* a file name handed to normalize_filename is made of at most this many pieces
MaxNameTokens == 5

\* a code reference is made of at most this many pieces
MaxRefTokens == 3

\* a hyperlink target is made of at most this many pieces
MaxTargetTokens == 3

(***************************************************************************)
(* Python string primitives.                                               *)
(***************************************************************************)
Digits == {"0", "1", "2", "3", "4", "5", "6", "7", "8", "9"}

LowerLetters == {"a", "b", "c", "d", "e", "f", "g", "h", "i", "j", "k", "l", "m",
                 "n", "o", "p", "q", "r", "s", "t", "u", "v", "w", "x", "y", "z"}

\* s[i-1:] of Python (i is 1-based here)
From(s, i) == SubSeq(s, i, Len(s))

\* s[:n]
Take(s, n) == SubSeq(s, 1, n)

\* s.startswith(p, i-1): p occurs in s at position i
MatchAt(s, i, p) == /\ i + Len(p) - 1 <= Len(s)
                    /\ SubSeq(s, i, i + Len(p) - 1) = p

startswith(s, p) == MatchAt(s, 1, p)

endswith(s, p) == /\ Len(s) >= Len(p)
                  /\ SubSeq(s, Len(s) - Len(p) + 1, Len(s)) = p

\* c in s, for a one-character c
Contains(s, c) == \E i \in 1..Len(s) : s[i] = c

\* s.rfind(c) + 1 : the last position of c in s, 0 when there is none
RFind(s, c) == LET hits == {i \in 1..Len(s) : s[i] = c}
               IN  IF hits = {} THEN 0 ELSE CHOOSE i \in hits : \A j \in hits : j <= i

\* s.find(c) + 1 : the first position of c in s, 0 when there is none
Find(s, c) == LET hits == {i \in 1..Len(s) : s[i] = c}
              IN  IF hits = {} THEN 0 ELSE CHOOSE i \in hits : \A j \in hits : i <= j

\* the least element of a non-empty set of positions
MinOf(S) == CHOOSE k \in S : \A j \in S : k <= j

RECURSIVE ReplaceFrom(_, _, _, _)
ReplaceFrom(s, i, old, new) ==
    LET hits == {k \in i..Len(s) : MatchAt(s, k, old)}
    IN  IF hits = {} THEN From(s, i)
        ELSE SubSeq(s, i, MinOf(hits) - 1) \o new
             \o ReplaceFrom(s, MinOf(hits) + Len(old), old, new)

\* s.replace(old, new) for a non-empty old: every non-overlapping occurrence,
\* left to right
str_replace(s, old, new) == ReplaceFrom(s, 1, old, new)

\* s.lstrip(c)
lstrip(s, c) ==
    LET others == {k \in 1..Len(s) : s[k] # c}
    IN  IF others = {} THEN <<>> ELSE From(s, MinOf(others))

\* os.path.basename(p) on POSIX: what follows the last "/"
os_path_basename(p) == From(p, RFind(p, "/") + 1)

\* os.path.splitext(p)[1] on POSIX: from the last dot of the last component,
\* unless that component has only leading dots before it
os_path_splitext(p) ==
    LET sepIndex == RFind(p, "/")
        dotIndex == RFind(p, ".")
    IN  IF dotIndex > sepIndex
           /\ \E k \in (sepIndex + 1)..(dotIndex - 1) : p[k] # "."
        THEN From(p, dotIndex)
        ELSE <<>>

(***************************************************************************)
(* Program constants.                                                      *)
(***************************************************************************)
DotMd == <<".", "m", "d">>

flovyn_server == <<"f", "l", "o", "v", "y", "n", "-", "s", "e", "r", "v", "e", "r">>
flovyn_app    == <<"f", "l", "o", "v", "y", "n", "-", "a", "p", "p">>
sdk_rust      == <<"s", "d", "k", "-", "r", "u", "s", "t">>
sdk_kotlin    == <<"s", "d", "k", "-", "k", "o", "t", "l", "i", "n">>
sdk_python    == <<"s", "d", "k", "-", "p", "y", "t", "h", "o", "n">>
dev           == <<"d", "e", "v">>

\* the repository names of SOURCES, in the order main() walks them
SOURCES == <<flovyn_server, flovyn_app, sdk_rust, sdk_kotlin>>

design       == <<"d", "e", "s", "i", "g", "n">>
plans        == <<"p", "l", "a", "n", "s">>
research     == <<"r", "e", "s", "e", "a", "r", "c", "h">>
bugs         == <<"b", "u", "g", "s">>
guides       == <<"g", "u", "i", "d", "e", "s">>
architecture == <<"a", "r", "c", "h", "i", "t", "e", "c", "t", "u", "r", "e">>
archive      == <<"a", "r", "c", "h", "i", "v", "e">>

TARGET_DIRS == <<design, plans, research, bugs, guides, architecture, archive>>

(***************************************************************************)
(* normalize_filename                                                      *)
(***************************************************************************)
\* re.match(r"^\d{8}_", s)
HasDatePrefix(s) == /\ Len(s) >= 9
                    /\ \A k \in 1..8 : s[k] \in Digits
                    /\ s[9] = "_"

\* the pattern _\d{3}- at position i of s
OrdinalAt(s, i) == /\ i + 4 <= Len(s)
                   /\ s[i] = "_"
                   /\ \A k \in 1..3 : s[i + k] \in Digits
                   /\ s[i + 4] = "-"

RECURSIVE StripOrdinalsFrom(_, _)
StripOrdinalsFrom(s, i) ==
    LET hits == {k \in i..Len(s) : OrdinalAt(s, k)}
    IN  IF hits = {} THEN From(s, i)
        ELSE SubSeq(s, i, MinOf(hits) - 1) \o <<"_">>
             \o StripOrdinalsFrom(s, MinOf(hits) + 5)

\* re.sub(r"_\d{3}-", "_", s)
StripOrdinals(s) == StripOrdinalsFrom(s, 1)

\* filename with its ".md" removed, when it ends with it
Stem(filename) ==
    IF endswith(filename, DotMd) THEN Take(filename, Len(filename) - 3)
    ELSE filename

\* a normalizer that dates every name, prefixed or not
AlwaysNeedsDate(stem) == TRUE

\* whether normalize_filename calls get_git_date: only for a stem without a
\* date prefix
NeedsDate(stem) == ~HasDatePrefix(stem)

\* date is what get_git_date answers, used only when NeedsDate
normalize_filename(filename, date) ==
    LET stem   == Stem(filename)
        result == IF NeedsDate(stem) THEN date \o <<"_">> \o stem ELSE stem
    IN  str_replace(StripOrdinals(result), <<"-">>, <<"_">>) \o DotMd

(***************************************************************************)
(* The reference rewriter.                                                 *)
(***************************************************************************)
WORKSPACE == <<"/", "h", "o", "m", "e", "/", "u", "b", "u", "n", "t", "u", "/",
               "w", "o", "r", "k", "s", "p", "a", "c", "e", "s", "/",
               "f", "l", "o", "v", "y", "n">>

CODE_EXTENSIONS ==
    { <<".", "r", "s">>, <<".", "t", "s">>, <<".", "t", "s", "x">>,
      <<".", "p", "y">>, <<".", "k", "t">>, <<".", "t", "o", "m", "l">>,
      <<".", "s", "q", "l">>, <<".", "m", "d">>, <<".", "s", "h">>,
      <<".", "j", "s", "o", "n">>, <<".", "y", "a", "m", "l">>,
      <<".", "y", "m", "l">> }

\* the prefixes normalize_code_reference takes for a repository
KnownRepos == {flovyn_server, flovyn_app, sdk_rust, sdk_python, sdk_kotlin, dev}

Slash == <<"/">>
DotDot == <<".", ".">>
DotDotSlash == <<".", ".", "/">>
DevDocsMarker == <<"/", ".", "d", "e", "v", "/", "d", "o", "c", "s", "/">>
DevDocs == <<"d", "e", "v", "/", "d", "o", "c", "s", "/">>
Http == <<"h", "t", "t", "p", ":", "/", "/">>
Https == <<"h", "t", "t", "p", "s", ":", "/", "/">>
Hash == <<"#">>

\* the backtick character, which a string literal of TLA+ cannot hold
Backtick == "BACKTICK"

\* the first position >= i of character c in s, 0 when there is none
FindFrom(s, i, c) ==
    LET hits == {k \in i..Len(s) : s[k] = c}
    IN  IF hits = {} THEN 0 ELSE CHOOSE k \in hits : \A j \in hits : k <= j

\* link with only its last component replaced through the table: what a
\* replacement of the file name alone would give
ReplaceBasenameOnly(link, fmap) ==
    LET filename == os_path_basename(link)
    IN  IF filename \in DOMAIN fmap
        THEN Take(link, Len(link) - Len(filename)) \o fmap[filename]
        ELSE link

\* normalize_doc_link: when the link's basename is a key of filename_map,
\* link.replace(filename, new_filename)
normalize_doc_link(link, fmap) ==
    LET filename == os_path_basename(link)
    IN  IF filename \in DOMAIN fmap
        THEN str_replace(link, filename, fmap[filename])
        ELSE link

\* [^/]+/\.dev/docs/ matches at position i of s: the position of the "/"
\* that ends the run of characters other than "/", or 0
DocRootAt(s, i) ==
    LET e == FindFrom(s, i, "/")
    IN  IF s[i] # "/" /\ e # 0 /\ MatchAt(s, e, DevDocsMarker) THEN e ELSE 0

RECURSIVE CollapseFrom(_, _)
CollapseFrom(s, i) ==
    LET hits == {k \in i..Len(s) : DocRootAt(s, k) # 0}
    IN  IF hits = {} THEN From(s, i)
        ELSE SubSeq(s, i, MinOf(hits) - 1) \o DevDocs
             \o CollapseFrom(s, DocRootAt(s, MinOf(hits)) + Len(DevDocsMarker))

\* re.sub(r"[^/]+/\.dev/docs/", "dev/docs/", s)
CollapseDocRoot(s) == CollapseFrom(s, 1)

\* re.sub(r"^(\.\./)+", "", ref)
RECURSIVE StripParents(_)
StripParents(ref) ==
    IF startswith(ref, DotDotSlash) THEN StripParents(From(ref, 4)) ELSE ref

\* the guard of the relative-path case: ref.startswith("..")
IsRelativeUp(ref) == startswith(ref, DotDot)

\* the extension test of the last case: os.path.splitext(ref)[1], of the
\* reference as it was handed over
CodeRefExt(ref) == os_path_splitext(ref)

normalize_code_reference(ref, source_repo) ==
    IF \E repo \in KnownRepos : startswith(ref, repo \o Slash)
    THEN ref
    ELSE IF startswith(ref, WORKSPACE)
    THEN lstrip(From(ref, Len(WORKSPACE) + 1), "/")
    ELSE IF IsRelativeUp(ref)
    THEN source_repo \o Slash \o StripParents(ref)
    ELSE IF /\ Contains(ref, "/")
            /\ ~startswith(ref, <<".">>)
            /\ CodeRefExt(ref) \in CODE_EXTENSIONS
    THEN source_repo \o Slash \o ref
    ELSE ref

\* a match of md_link_pattern, \[([^\]]*)\]\(([^)]+)\), starting at position i:
\* the positions of its "]" and of its ")", or <<0, 0>> when there is none
LinkAt(s, i) ==
    IF i > Len(s) \/ s[i] # "[" THEN <<0, 0>>
    ELSE LET j == FindFrom(s, i + 1, "]")
         IN  IF j = 0 \/ j + 1 > Len(s) \/ s[j + 1] # "(" THEN <<0, 0>>
             ELSE LET k == FindFrom(s, j + 2, ")")
                  IN  IF k = 0 \/ k = j + 2 THEN <<0, 0>> ELSE <<j, k>>

\* path.startswith(("http://", "https://", "#"))
IsUrlOrAnchor(path) ==
    startswith(path, Http) \/ startswith(path, Https) \/ startswith(path, Hash)

replace_md_link(whole, text, path, fmap, source_repo) ==
    IF IsUrlOrAnchor(path) THEN whole
    ELSE IF endswith(path, DotMd)
            \/ \E k \in 1..Len(path) : MatchAt(path, k, DevDocsMarker)
    THEN <<"[">> \o text \o <<"]", "(">>
         \o CollapseDocRoot(normalize_doc_link(path, fmap)) \o <<")">>
    ELSE IF os_path_splitext(path) \in CODE_EXTENSIONS
    THEN <<"[">> \o text \o <<"]", "(">>
         \o normalize_code_reference(path, source_repo) \o <<")">>
    ELSE whole

\* re.sub(md_link_pattern, replace_md_link, s) from position i on
RECURSIVE SubLinksFrom(_, _, _, _)
SubLinksFrom(s, i, fmap, source_repo) ==
    LET hits == {k \in i..Len(s) : LinkAt(s, k)[1] # 0}
    IN  IF hits = {} THEN From(s, i)
        ELSE LET k == MinOf(hits)
                 m == LinkAt(s, k)
             IN  SubSeq(s, i, k - 1)
                 \o replace_md_link(SubSeq(s, k, m[2]), SubSeq(s, k + 1, m[1] - 1),
                                    SubSeq(s, m[1] + 2, m[2] - 1), fmap, source_repo)
                 \o SubLinksFrom(s, m[2] + 1, fmap, source_repo)

\* \.[a-z]{1,4} at the end of c, after at least one character
EndsWithExt(c) ==
    \E n \in 1..4 :
        /\ Len(c) >= n + 2
        /\ \A k \in (Len(c) - n + 1)..Len(c) : c[k] \in LowerLetters
        /\ c[Len(c) - n] = "."

\* the whole of c matches [^`]+\.[a-z]{1,4}(?::\d+)?
IsCodeRefBody(c) ==
    \/ EndsWithExt(c)
    \/ \E m \in 1..(Len(c) - 1) :
          /\ \A k \in (Len(c) - m + 1)..Len(c) : c[k] \in Digits
          /\ c[Len(c) - m] = ":"
          /\ EndsWithExt(Take(c, Len(c) - m - 1))

\* a match of code_ref_pattern starting at position i: the position of its
\* closing backtick, or 0
CodeRefAt(s, i) ==
    IF i > Len(s) \/ s[i] # Backtick THEN 0
    ELSE LET e == FindFrom(s, i + 1, Backtick)
         IN  IF e # 0 /\ IsCodeRefBody(SubSeq(s, i + 1, e - 1)) THEN e ELSE 0

\* ref.split(":")[0]
BeforeColon(ref) ==
    IF Find(ref, ":") = 0 THEN ref ELSE Take(ref, Find(ref, ":") - 1)

replace_code_ref(whole, ref, source_repo) ==
    IF os_path_splitext(BeforeColon(ref)) \in CODE_EXTENSIONS
    THEN <<Backtick>> \o normalize_code_reference(ref, source_repo) \o <<Backtick>>
    ELSE whole

\* re.sub(code_ref_pattern, replace_code_ref, s) from position i on
RECURSIVE SubCodeRefsFrom(_, _, _)
SubCodeRefsFrom(s, i, source_repo) ==
    LET hits == {k \in i..Len(s) : CodeRefAt(s, k) # 0}
    IN  IF hits = {} THEN From(s, i)
        ELSE LET k == MinOf(hits)
                 e == CodeRefAt(s, k)
             IN  SubSeq(s, i, k - 1)
                 \o replace_code_ref(SubSeq(s, k, e), SubSeq(s, k + 1, e - 1),
                                     source_repo)
                 \o SubCodeRefsFrom(s, e + 1, source_repo)

Whitespace == {" ", "\t", "\n"}

MetaLabels == { <<"D", "e", "s", "i", "g", "n">>, <<"P", "l", "a", "n">>,
                <<"B", "u", "g">> }

MetaOpen(label) == <<"*", "*">> \o label \o <<":", "*", "*">>

\* the last position of the run of characters other than "]" and "\n" that
\* starts at position g of s (g - 1 when the run is empty)
RunEnd(s, g) ==
    LET stops == {k \in g..Len(s) : s[k] = "]" \/ s[k] = "\n"}
    IN  IF stops = {} THEN Len(s) ELSE MinOf(stops) - 1

\* the number of whitespace characters of s from position p on
SpaceRun(s, p) ==
    LET others == {k \in p..Len(s) : s[k] \notin Whitespace}
    IN  IF others = {} THEN Len(s) - p + 1 ELSE MinOf(others) - p

\* \s*\[?([^\]\n]+)\]? from position p of s, as the backtracking matcher
\* finds it: the longest run of whitespace first, then with the bracket
\* before without it.  <<first of the group, last of the group, end of the
\* match>>, or <<0, 0, 0>>.
MetaTail(s, p) ==
    LET tries == {<<w, b>> \in (0..SpaceRun(s, p)) \X {0, 1} :
                     LET q == p + w
                         g == q + b
                     IN  /\ (b = 1) => (q <= Len(s) /\ s[q] = "[")
                         /\ RunEnd(s, g) >= g}
    IN  IF tries = {} THEN <<0, 0, 0>>
        ELSE LET t == CHOOSE t \in tries :
                          \A u \in tries :
                              u[1] < t[1] \/ (u[1] = t[1] /\ u[2] <= t[2])
                 g == p + t[1] + t[2]
                 r == RunEnd(s, g)
             IN  <<g, r, IF r + 1 <= Len(s) /\ s[r + 1] = "]" THEN r + 1 ELSE r>>

\* a match of meta_pattern starting at position i: <<label, first of the
\* group, last of the group, end of the match>>, or <<>>
MetaAt(s, i) ==
    LET labels == {l \in MetaLabels : MatchAt(s, i, MetaOpen(l))}
    IN  IF labels = {} THEN <<>>
        ELSE LET l == CHOOSE l \in labels : TRUE
                 t == MetaTail(s, i + Len(MetaOpen(l)))
             IN  IF t[1] = 0 THEN <<>> ELSE <<l, t[1], t[2], t[3]>>

\* s.strip()
strip(s) ==
    LET others == {k \in 1..Len(s) : s[k] \notin Whitespace}
    IN  IF others = {} THEN <<>>
        ELSE SubSeq(s, MinOf(others),
                    CHOOSE k \in others : \A j \in others : j <= k)

replace_meta(whole, label, group, fmap) ==
    IF endswith(strip(group), DotMd)
    THEN MetaOpen(label) \o <<" ">>
         \o CollapseDocRoot(normalize_doc_link(strip(group), fmap))
    ELSE whole

\* re.sub(meta_pattern, replace_meta, s) from position i on
RECURSIVE SubMetaFrom(_, _, _)
SubMetaFrom(s, i, fmap) ==
    LET hits == {k \in i..Len(s) : MetaAt(s, k) # <<>>}
    IN  IF hits = {} THEN From(s, i)
        ELSE LET k == MinOf(hits)
                 m == MetaAt(s, k)
             IN  SubSeq(s, i, k - 1)
                 \o replace_meta(SubSeq(s, k, m[4]), m[1], SubSeq(s, m[2], m[3]), fmap)
                 \o SubMetaFrom(s, m[4] + 1, fmap)

\* the three passes, in the order of the function
normalize_links_in_content(content, fmap, source_repo) ==
    SubMetaFrom(SubCodeRefsFrom(SubLinksFrom(content, 1, fmap, source_repo),
                                1, source_repo),
                1, fmap)

(***************************************************************************)
(* The discovered source files and the target tree.                        *)
(*                                                                         *)
(* A source file is a repository of SOURCES and the parts of its path      *)
(* relative to that repository's .dev/docs.  A path of the target tree is  *)
(* the sequence of its parts relative to TARGET_DIR.  A file of the target *)
(* tree holds either what was there before the run ("pre"), the rewritten  *)
(* text of the k-th mapping ("src"), or the remains of a write of the k-th *)
(* mapping that failed after the file was opened ("partial").              *)
(***************************************************************************)
D1 == <<"2", "0", "2", "4", "0", "1", "0", "1">>
D2 == <<"2", "0", "2", "4", "0", "1", "0", "2">>

\* what get_git_date may answer for a file
Dates == {D1, D2}

f_kebab   == <<"a", "-", "b">> \o DotMd
f_snake   == <<"a", "_", "b">> \o DotMd
f_ordinal == <<"0", "0", "1", "-", "a", "-", "b">> \o DotMd
f_dated   == D1 \o <<"_", "a", "-", "b">> \o DotMd

sub  == <<"s">>
deep == <<"x">>

SourceUniverse ==
    { [repo |-> flovyn_server, rel |-> <<design, f_kebab>>],
      [repo |-> flovyn_server, rel |-> <<design, f_snake>>],
      [repo |-> flovyn_server, rel |-> <<design, f_ordinal>>],
      [repo |-> flovyn_server, rel |-> <<design, sub, f_kebab>>],
      [repo |-> flovyn_app,    rel |-> <<design, f_dated>>],
      [repo |-> flovyn_app,    rel |-> <<design, sub, deep, f_kebab>>] }

\* files that may be in the target tree before the run: what earlier runs
\* over the same sources leave there
PreExisting ==
    { <<design, D1 \o <<"_", "a", "_", "b">> \o DotMd>>,
      <<design, D1 \o <<"_", "a", "_", "b", "_">> \o flovyn_server \o DotMd>> }

\* the characters of the file names above, in code point order
CodeOrder == <<"-", ".", "0", "1", "2", "3", "4", "5", "6", "7", "8", "9", "_",
               "a", "b", "c", "d", "e", "f", "g", "h", "i", "j", "k", "l", "m",
               "n", "o", "p", "q", "r", "s", "t", "u", "v", "w", "x", "y", "z">>

Ord(c) == CHOOSE k \in 1..Len(CodeOrder) : CodeOrder[k] = c

\* a < b for Python strings
StrLess(a, b) ==
    \/ /\ Len(a) < Len(b)
       /\ Take(b, Len(a)) = a
    \/ \E k \in 1..Len(a) :
          /\ k <= Len(b)
          /\ Take(a, k - 1) = Take(b, k - 1)
          /\ Ord(a[k]) < Ord(b[k])

\* p < q for paths: the lists of parts compare part by part
PathLess(p, q) ==
    \/ /\ Len(p) < Len(q)
       /\ Take(q, Len(p)) = p
    \/ \E k \in 1..Len(p) :
          /\ k <= Len(q)
          /\ Take(p, k - 1) = Take(q, k - 1)
          /\ StrLess(p[k], q[k])

RepoIndex(r) == CHOOSE k \in 1..Len(SOURCES) : SOURCES[k] = r

\* the order of the two loops of build_filename_mapping: SOURCES in order, and
\* within a repository sorted(source_dir.rglob("*.md"))
Before(a, b) ==
    \/ RepoIndex(a.repo) < RepoIndex(b.repo)
    \/ /\ a.repo = b.repo
       /\ PathLess(a.rel, b.rel)

Discover(S) ==
    CHOOSE q \in [1..Cardinality(S) -> S] :
        \A j, k \in 1..Cardinality(S) : j < k => Before(q[j], q[k])

\* the directories mkdir(parents=True) makes sure exist for a file at path p
Parents(p) == {Take(p, n) : n \in 0..(Len(p) - 1)}

\* main()'s target.mkdir(parents=True, exist_ok=True) over TARGET_DIRS
TargetDirSet == {<<>>} \cup {<<TARGET_DIRS[k]>> : k \in 1..Len(TARGET_DIRS)}

VARIABLES dry_run, sources, disk, dirs, manifest, fs0,
          mappings, filename_map, normalized, pc, i, reads, writes, failed_at,
          fn, arg, res

\* the state of a run of main()
run == <<dry_run, sources, disk, dirs, manifest, fs0,
         mappings, filename_map, normalized, pc, i, reads, writes, failed_at>>

\* a call of one function of the script on its own: the function, its
\* arguments and what it returned
call == <<fn, arg, res>>

vars == <<run, call>>

NoManifest == [kind |-> "none", lines |-> <<>>]
OldManifest == [kind |-> "old", lines |-> <<>>]

Init ==
    /\ dry_run \in BOOLEAN
    /\ \E S \in SUBSET SourceUniverse :
          /\ Cardinality(S) <= MaxFiles
          /\ sources = Discover(S)
    /\ \E P \in SUBSET PreExisting :
          disk = [p \in P |-> [kind |-> "pre", of |-> 0]]
    /\ dirs \in {{}, TargetDirSet}
    /\ (disk # <<>>) => (dirs = TargetDirSet)
    /\ manifest \in {NoManifest, OldManifest}
    /\ fs0 = [disk |-> disk, dirs |-> dirs, manifest |-> manifest]
    /\ mappings = <<>>
    /\ filename_map = <<>>
    /\ normalized = <<>>
    /\ pc = "mkdirs"
    /\ i = 1
    /\ reads = {}
    /\ writes = {}
    /\ failed_at = 0
    /\ fn = "main"
    /\ arg = <<>>
    /\ res = <<>>

\* Path.exists() of a path of the target tree
Exists(p) == p \in DOMAIN disk \/ p \in dirs

\* guards that forget the flag
AlwaysMutates(dry) == TRUE

\* the guards of main(), migrate_file() and write_mapping_file(): the
\* filesystem is touched only when not dry_run
Mutates(dry) == ~dry

\* where main() goes once the loop it is in has no element left
PcAfterBuild(n) == IF n > Len(sources) THEN "migrate" ELSE "build"

PcAfterMigrate(n, count) == IF n > count THEN "manifest" ELSE "migrate"

\* main(): the loop that creates the target directories
MkTargetDirs ==
    /\ pc = "mkdirs"
    /\ dirs' = IF Mutates(dry_run) THEN dirs \cup TargetDirSet ELSE dirs
    /\ pc' = IF Len(sources) = 0 THEN "manifest" ELSE "build"
    /\ i' = 1
    /\ UNCHANGED <<dry_run, sources, disk, manifest, fs0, mappings, filename_map,
                   normalized, reads, writes, failed_at>>
    /\ UNCHANGED call

\* TARGET_DIR / dir_type [/ subdir] / new_filename
TargetPath(parts, new_filename) ==
    IF Len(parts) > 2 THEN <<parts[1], parts[2], new_filename>>
    ELSE <<parts[1], new_filename>>

\* the conflict test of build_filename_mapping
Conflict(target_path) ==
    \/ Exists(target_path)
    \/ \E k \in 1..Len(mappings) : mappings[k].new_path = target_path

\* f"{base}_{source_repo}.md" with base = new_filename[:-3]
WithRepoSuffix(new_filename, source_repo) ==
    Take(new_filename, Len(new_filename) - 3) \o <<"_">> \o source_repo \o DotMd

\* a mapper that stores the name as it was before the conflict branch
RegisteredBase(pre_suffix, final) == pre_suffix

\* the name build_filename_mapping stores in filename_map: the variable
\* new_filename as it stands after the conflict branch
Registered(pre_suffix, final) == final

\* build_filename_mapping: one iteration of the loop over the source files
BuildStep ==
    /\ pc = "build"
    /\ i <= Len(sources)
    /\ \E date \in Dates :
         LET source_file  == sources[i]
             parts        == source_file.rel
             old_filename == parts[Len(parts)]
             base_name    == normalize_filename(old_filename, date)
             tentative    == TargetPath(parts, base_name)
             conflict     == Conflict(tentative)
             new_filename == IF conflict
                             THEN WithRepoSuffix(base_name, source_file.repo)
                             ELSE base_name
             target_path  == TargetPath(parts, new_filename)
             mapping      == [old_path     |-> source_file,
                              new_path     |-> target_path,
                              old_filename |-> old_filename,
                              new_filename |-> new_filename,
                              source_repo  |-> source_file.repo]
         IN  /\ mappings' = Append(mappings, mapping)
             /\ normalized' = Append(normalized, base_name)
             /\ filename_map' =
                   [f \in DOMAIN filename_map \cup {old_filename} |->
                       IF f = old_filename
                       THEN Registered(base_name, new_filename)
                       ELSE filename_map[f]]
    /\ pc' = PcAfterBuild(i + 1)
    /\ i' = IF i + 1 > Len(sources) THEN 1 ELSE i + 1
    /\ UNCHANGED <<dry_run, sources, disk, dirs, manifest, fs0, reads, writes,
                   failed_at>>
    /\ UNCHANGED call

\* a loop that catches the error and goes on with the next mapping
ContinueAfterIOError(n, count) == PcAfterMigrate(n + 1, count)

\* an I/O error raised in migrate_file is caught nowhere: the run ends
AfterIOError(n, count) == "aborted"

\* migrate_file: the source is read, rewritten and, unless dry_run, written
MigrateFile ==
    /\ pc = "migrate"
    /\ i <= Len(mappings)
    /\ reads' = reads \cup {i}
    /\ IF Mutates(dry_run)
       THEN /\ dirs' = dirs \cup Parents(mappings[i].new_path)
            /\ disk' = [p \in DOMAIN disk \cup {mappings[i].new_path} |->
                          IF p = mappings[i].new_path
                          THEN [kind |-> "src", of |-> i]
                          ELSE disk[p]]
            /\ writes' = writes \cup {i}
       ELSE UNCHANGED <<dirs, disk, writes>>
    /\ pc' = PcAfterMigrate(i + 1, Len(mappings))
    /\ i' = i + 1
    /\ UNCHANGED <<dry_run, sources, manifest, fs0, mappings, filename_map,
                   normalized, failed_at>>
    /\ UNCHANGED call

\* migrate_file: old_path.read_text() raises
MigrateReadFails ==
    /\ pc = "migrate"
    /\ i <= Len(mappings)
    /\ failed_at' = i
    /\ pc' = AfterIOError(i, Len(mappings))
    /\ i' = IF pc' = "aborted" THEN i ELSE i + 1
    /\ UNCHANGED <<dry_run, sources, disk, dirs, manifest, fs0, mappings,
                   filename_map, normalized, reads, writes>>
    /\ UNCHANGED call

\* migrate_file: mkdir or write_text raises.  mkdir may have made the
\* directories, and write_text may have opened (and so emptied) the file.
MigrateWriteFails ==
    /\ pc = "migrate"
    /\ i <= Len(mappings)
    /\ Mutates(dry_run)
    /\ reads' = reads \cup {i}
    /\ \/ UNCHANGED <<dirs, disk>>
       \/ /\ dirs' = dirs \cup Parents(mappings[i].new_path)
          /\ UNCHANGED disk
       \/ /\ dirs' = dirs \cup Parents(mappings[i].new_path)
          /\ disk' = [p \in DOMAIN disk \cup {mappings[i].new_path} |->
                        IF p = mappings[i].new_path
                        THEN [kind |-> "partial", of |-> i]
                        ELSE disk[p]]
    /\ failed_at' = i
    /\ pc' = AfterIOError(i, Len(mappings))
    /\ i' = IF pc' = "aborted" THEN i ELSE i + 1
    /\ UNCHANGED <<dry_run, sources, manifest, fs0, mappings, filename_map,
                   normalized, writes>>
    /\ UNCHANGED call

\* write_mapping_file: nothing under dry_run, else the manifest is rewritten
WriteMappingFile ==
    /\ pc = "manifest"
    /\ manifest' = IF Mutates(dry_run)
                   THEN [kind  |-> "run",
                         lines |-> [k \in 1..Len(mappings) |->
                                      <<mappings[k].old_path, mappings[k].new_path>>]]
                   ELSE manifest
    /\ pc' = "done"
    /\ UNCHANGED <<dry_run, sources, disk, dirs, fs0, mappings, filename_map,
                   normalized, i, reads, writes, failed_at>>
    /\ UNCHANGED call

Next ==
    \/ MkTargetDirs
    \/ BuildStep
    \/ MigrateFile
    \/ MigrateReadFails
    \/ MigrateWriteFails
    \/ WriteMappingFile

Spec == Init /\ [][Next]_vars

(***************************************************************************)
(* Properties of the run.                                                  *)
(***************************************************************************)

\* C1: no two FileMappings built by build_filename_mapping have the same
\* destination path (new_path).
C1_UniqueDestinations ==
    \A j, k \in 1..Len(mappings) :
        j # k => mappings[j].new_path # mappings[k].new_path

\* C2: a run under --dry-run changes nothing on the filesystem: the files and
\* the directories of the target tree and the mapping manifest are, in every
\* state of the run, what they were when it started.
C2_DryRunMutatesNothing ==
    dry_run => /\ disk = fs0.disk
               /\ dirs = fs0.dirs
               /\ manifest = fs0.manifest

\* a dry run that went through all its phases with files to migrate
C2_Witness ==
    /\ dry_run
    /\ pc = "done"
    /\ Len(mappings) >= 2
    /\ reads = 1..Len(mappings)

\* C3 as stated: the FilenameTable entry registered for a file's original
\* filename is its normalized filename before any collision suffix.
C3_RegistersPreSuffixName ==
    Len(mappings) > 0 =>
        filename_map[mappings[Len(mappings)].old_filename]
            = normalized[Len(mappings)]

\* C3 as amended: the FilenameTable entry of an original filename is the final
\* new_filename of the last file processed with that original filename, the
\* repository suffix included when that file's destination collided.
C3_RegistersFinalName ==
    /\ DOMAIN filename_map = {mappings[k].old_filename : k \in 1..Len(mappings)}
    /\ \A k \in 1..Len(mappings) :
          (\A j \in (k + 1)..Len(mappings) :
              mappings[j].old_filename # mappings[k].old_filename)
          => filename_map[mappings[k].old_filename] = mappings[k].new_filename

\* a file whose destination collided has been registered
C3_Witness ==
    \E k \in 1..Len(mappings) :
        /\ mappings[k].new_filename # normalized[k]
        /\ mappings[k].new_filename
              = WithRepoSuffix(normalized[k], mappings[k].source_repo)
        /\ filename_map[mappings[k].old_filename] = mappings[k].new_filename

\* C4: in execute mode, when reading or writing fails for the k-th mapping the
\* run stops there: the destinations of mappings 1..k-1 were written and are
\* still on disk, no mapping after k was read or written, and the manifest
\* was not written.
C4_AbortKeepsEarlierWrites ==
    (failed_at # 0 /\ ~dry_run) =>
        /\ pc = "aborted"
        /\ failed_at \in 1..Len(mappings)
        /\ \A j \in 1..(failed_at - 1) :
              /\ j \in writes
              /\ mappings[j].new_path \in DOMAIN disk
              /\ disk[mappings[j].new_path].kind # "pre"
        /\ \A j \in (failed_at + 1)..Len(mappings) :
              /\ j \notin reads
              /\ j \notin writes
        /\ failed_at \notin writes
        /\ manifest = fs0.manifest

\* an execute run that failed at a mapping with mappings before and after it
C4_Witness ==
    /\ pc = "aborted"
    /\ ~dry_run
    /\ failed_at = 2
    /\ Len(mappings) = 3
    /\ 1 \in writes

\* C10: in execute mode no file that was in the target tree when the run
\* started is written by migrate_file.
C10_NoPreExistingOverwritten ==
    \A k \in writes : mappings[k].new_path \notin DOMAIN fs0.disk

(***************************************************************************)
(* The functions of the script called on their own.                        *)
(***************************************************************************)

\* main() is not running
RunIdle ==
    /\ dry_run = TRUE
    /\ sources = <<>>
    /\ disk = <<>>
    /\ dirs = {}
    /\ manifest = NoManifest
    /\ fs0 = [disk |-> <<>>, dirs |-> {}, manifest |-> NoManifest]
    /\ mappings = <<>>
    /\ filename_map = <<>>
    /\ normalized = <<>>
    /\ pc = "idle"
    /\ i = 1
    /\ reads = {}
    /\ writes = {}
    /\ failed_at = 0

\* the concatenations of at most n pieces of the set tokens
RECURSIVE Concats(_, _)
Concats(tokens, n) ==
    IF n = 0 THEN {<<>>}
    ELSE LET shorter == Concats(tokens, n - 1)
         IN  shorter \cup {t \o c : t \in tokens, c \in shorter}

NameTokens == { <<"a">>, <<"-">>, <<"_">>, <<"0", "0", "1">>, D1 }

\* file names ending in ".md"
FileNames == {c \o DotMd : c \in Concats(NameTokens, MaxNameTokens)}

InitNormalize ==
    /\ RunIdle
    /\ fn = "normalize_filename"
    /\ arg \in [filename : FileNames, date : Dates]
    /\ res = [calls |-> 0, first |-> <<>>, second |-> <<>>, lookups |-> 0]

\* normalize_filename(filename, source_file)
NormalizeOnce ==
    /\ fn = "normalize_filename"
    /\ res.calls = 0
    /\ res' = [calls   |-> 1,
               first   |-> normalize_filename(arg.filename, arg.date),
               second  |-> <<>>,
               lookups |-> IF NeedsDate(Stem(arg.filename)) THEN 1 ELSE 0]
    /\ UNCHANGED <<fn, arg, run>>

\* normalize_filename of the name the first call returned
NormalizeAgain ==
    /\ fn = "normalize_filename"
    /\ res.calls = 1
    /\ res' = [res EXCEPT !.calls = 2,
                          !.second = normalize_filename(res.first, arg.date)]
    /\ UNCHANGED <<fn, arg, run>>

NextNormalize == NormalizeOnce \/ NormalizeAgain

SpecNormalize == InitNormalize /\ [][NextNormalize]_vars

src_h == <<"s", "r", "c", "/", "h">>
dot_rs == <<".", "r", "s">>
dot_txt == <<".", "t", "x", "t">>
line_42 == <<":", "4", "2">>

RefTokens == { DotDot, Slash, DotDotSlash, src_h, <<"h">>, dot_rs, dot_txt,
               line_42, sdk_kotlin \o Slash, WORKSPACE, <<".">> }

CodeRefs == Concats(RefTokens, MaxRefTokens) \ {<<>>}

x_md == <<"x">> \o DotMd

TargetTokens == { Hash, Http \o <<"h", "/">>, DotDot \o DevDocsMarker,
                  x_md \o <<"-", "o", "l", "d", "/">>, x_md,
                  design \o Slash, <<Backtick>>, src_h \o dot_rs,
                  <<Backtick>> \o src_h \o dot_rs \o <<Backtick>> }

Targets == Concats(TargetTokens, MaxTargetTokens) \ {<<>>}

Labels == { <<"l">>, x_md }

Hyperlinks ==
    { <<"[">> \o l \o <<"]", "(">> \o t \o <<")">> : l \in Labels, t \in Targets }

CodeSpans == { <<Backtick>> \o r \o <<Backtick>> : r \in CodeRefs }

Leads == { <<>>, MetaOpen(<<"D", "e", "s", "i", "g", "n">>) \o <<" ">> }

Contents == { p \o b : p \in Leads, b \in Hyperlinks \cup CodeSpans }

\* a FilenameTable as build_filename_mapping leaves it for a file x.md
TableOfX == [f \in {x_md} |-> normalize_filename(x_md, D1)]

InitRewrite ==
    /\ RunIdle
    /\ res = [done |-> FALSE, out |-> <<>>]
    /\ \/ /\ fn = "normalize_code_reference"
          /\ arg \in [ref : CodeRefs, source_repo : {flovyn_server, sdk_rust}]
       \/ /\ fn = "normalize_links_in_content"
          /\ arg \in [content : Contents, filename_map : {TableOfX},
                      source_repo : {flovyn_server, sdk_rust}]

CallNormalizeCodeReference ==
    /\ fn = "normalize_code_reference"
    /\ ~res.done
    /\ res' = [done |-> TRUE,
               out  |-> normalize_code_reference(arg.ref, arg.source_repo)]
    /\ UNCHANGED <<fn, arg, run>>

CallNormalizeLinksInContent ==
    /\ fn = "normalize_links_in_content"
    /\ ~res.done
    /\ res' = [done |-> TRUE,
               out  |-> normalize_links_in_content(arg.content, arg.filename_map,
                                                   arg.source_repo)]
    /\ UNCHANGED <<fn, arg, run>>

NextRewrite == CallNormalizeCodeReference \/ CallNormalizeLinksInContent

SpecRewrite == InitRewrite /\ [][NextRewrite]_vars

(***************************************************************************)
(* Properties of the functions.                                            *)
(***************************************************************************)

\* a name of the form 8 digits, "_", anything, ".md", with no hyphen and no
\* "_NNN-" ordinal
IsCanonicalName(f) ==
    /\ HasDatePrefix(f)
    /\ Len(f) >= 12
    /\ endswith(f, DotMd)
    /\ ~Contains(f, "-")
    /\ \A k \in 1..Len(f) : ~OrdinalAt(f, k)

\* C9: normalize_filename is idempotent for a given date, and a name that is
\* already canonical is returned as it is, without a date lookup.
C9_NormalizeIdempotent ==
    /\ res.calls = 2 => res.second = res.first
    /\ (res.calls >= 1 /\ IsCanonicalName(arg.filename)) =>
          (res.first = arg.filename /\ res.lookups = 0)

\* a name with an ordinal and hyphens was normalized twice
C9_Witness ==
    /\ res.calls = 2
    /\ \E k \in 1..Len(arg.filename) : OrdinalAt(arg.filename, k)
    /\ Contains(res.first, "_")
    /\ ~Contains(res.first, "-")
    /\ res.first # arg.filename

\* the five cases of the code-reference rule, as the claim words them
ClaimedCodeReference(ref, source_repo) ==
    IF \E repo \in KnownRepos : startswith(ref, repo \o Slash)
    THEN ref
    ELSE IF startswith(ref, WORKSPACE)
    THEN lstrip(From(ref, Len(WORKSPACE) + 1), "/")
    ELSE IF startswith(ref, DotDotSlash)
    THEN source_repo \o Slash \o StripParents(ref)
    ELSE IF /\ Contains(ref, "/")
            /\ ~startswith(ref, <<".">>)
            /\ os_path_splitext(ref) \in CODE_EXTENSIONS
    THEN source_repo \o Slash \o ref
    ELSE ref

\* C7: normalize_code_reference follows the five-case rule: known repository
\* prefix, workspace prefix, leading "../" segments, a path with a recognized
\* extension, and every other reference unchanged.
C7_FiveCaseRule ==
    (fn = "normalize_code_reference" /\ res.done) =>
        res.out = ClaimedCodeReference(arg.ref, arg.source_repo)

\* the number of digits that end s
TrailingDigits(s) ==
    LET others == {k \in 1..Len(s) : s[k] \notin Digits}
    IN  IF others = {} THEN Len(s)
        ELSE Len(s) - (CHOOSE k \in others : \A j \in others : j <= k)

\* C8: an inline reference `path:line` whose path has a recognized code
\* extension is rewritten as the path alone would be, with ":line" kept
\* after it inside the backticks.
C8_LineNumberKept ==
    (fn = "normalize_links_in_content" /\ res.done) =>
        LET c == arg.content
            body == SubSeq(c, 2, Len(c) - 1)
            n == TrailingDigits(body)
            path == Take(body, Len(body) - n - 1)
            suffix == From(body, Len(body) - n)
        IN  (/\ Len(c) >= 3
             /\ c[1] = Backtick
             /\ c[Len(c)] = Backtick
             /\ ~Contains(body, Backtick)
             /\ n >= 1
             /\ Len(body) > n
             /\ body[Len(body) - n] = ":"
             /\ os_path_splitext(path) \in CODE_EXTENSIONS)
            => res.out = <<Backtick>>
                         \o normalize_code_reference(path, arg.source_repo)
                         \o suffix \o <<Backtick>>

\* C5: a hyperlink whose target is a documentation reference with a file name
\* of the FilenameTable gets the mapped name as its file name; the rest of
\* the target is unchanged but for the collapse of "{segment}/.dev/docs/".
C5_OnlyFilenameReplaced ==
    (fn = "normalize_links_in_content" /\ res.done) =>
        LET c == arg.content
            m == LinkAt(c, 1)
            label == SubSeq(c, 2, m[1] - 1)
            target == SubSeq(c, m[1] + 2, m[2] - 1)
        IN  (/\ m[2] = Len(c)
             /\ m[1] # 0
             /\ ~Contains(c, Backtick)
             /\ ~IsUrlOrAnchor(target)
             /\ \/ endswith(target, DotMd)
                \/ \E k \in 1..Len(target) : MatchAt(target, k, DevDocsMarker)
             /\ os_path_basename(target) \in DOMAIN arg.filename_map)
            => res.out = <<"[">> \o label \o <<"]", "(">>
                         \o CollapseDocRoot(ReplaceBasenameOnly(target, arg.filename_map))
                         \o <<")">>

\* the targets of the hyperlinks of s that are web URLs or anchors
RECURSIVE UrlTargetsFrom(_, _)
UrlTargetsFrom(s, from) ==
    LET hits == {k \in from..Len(s) : LinkAt(s, k)[1] # 0}
    IN  IF hits = {} THEN {}
        ELSE LET m == LinkAt(s, MinOf(hits))
                 target == SubSeq(s, m[1] + 2, m[2] - 1)
             IN  (IF IsUrlOrAnchor(target) THEN {target} ELSE {})
                 \cup UrlTargetsFrom(s, m[2] + 1)

\* C6: every hyperlink whose target starts with "http://", "https://" or "#"
\* has the same target after the three passes of normalize_links_in_content:
\* the target, between its parentheses, is still in the output.
C6_UrlTargetsKept ==
    (fn = "normalize_links_in_content" /\ res.done) =>
        \A t \in UrlTargetsFrom(arg.content, 1) :
            \E k \in 1..Len(res.out) : MatchAt(res.out, k, <<"(">> \o t \o <<")">>)

====
